---------------------------- MODULE Spec2Model ----------------------------
(***************************************************************************)
(* A model of the GeoBuffer generator (src/app.py): the level-file parser, *)
(* the sliding-window analyzer, the id-to-category aggregator, the preset  *)
(* injector, the writer, the roller override of the conversion map and the *)
(* run_processing handler that chains them.                                *)
(*                                                                         *)
(* Representation.                                                         *)
(*   - A Python str is the sequence of its code points (integers); Str     *)
(*     writes one from printable characters.  A path and the text of a     *)
(*     message box, which the code only passes on, are TLA+ strings.       *)
(*   - A Python dict is a sequence of <<key, value>> pairs in insertion    *)
(*     order (a dict iterates in insertion order; assigning to a key that  *)
(*     is present keeps its position).                                     *)
(*   - A category (x, y) is the pair <<x, y>>, a geoBuffer tuple (x, y, z) *)
(*     is <<x, y, z>>, a row is a sequence of integers.                    *)
(***************************************************************************)
EXTENDS Integers, Sequences, FiniteSets

VARIABLES
    data,                \* the primary mapping configuration (line 8)
    conversion_map,      \* dict: item id -> (x, y) (line 5)
    rm_data,             \* the roller configuration as loaded (lines 181-189)
    roller_mappings,     \* dict: name -> (x, y) (line 179)
    roller_var,          \* the name the combobox shows (line 226)
    selection,           \* the argument of the last apply_roller_mapping call (line 198)
    input_file_var,      \* line 169
    output_file_var,     \* line 170
    chunk_size_var,      \* line 171
    add_geobuffer0_var,  \* line 172
    file_text,           \* the decoded text of the file the parser opened (line 35)
    lines,               \* the lines the parser read (line 36)
    level_rows,          \* the parsed grid (line 39 / line 146)
    chunk_size,          \* the window size handed to the analyzer (line 141)
    max_counts,          \* dict: item id -> max count (line 67 / line 151)
    geobuffer_list,      \* the entry list (line 94 / lines 152-156)
    calls,               \* the functions invoked so far by the last run
    message,             \* the message box the last run showed
    raised,              \* the exception that escaped the last run, "" if none
    written              \* what write_output put in the output file

vars == <<data, conversion_map, rm_data, roller_mappings, roller_var, selection,
          input_file_var, output_file_var, chunk_size_var, add_geobuffer0_var,
          file_text, lines, level_rows, chunk_size, max_counts, geobuffer_list,
          calls, message, raised, written>>

-----------------------------------------------------------------------------
(* Small arithmetic and sequence helpers.                                    *)

Max(a, b) == IF a > b THEN a ELSE b

Min(a, b) == IF a < b THEN a ELSE b

Range(s) == {s[i] : i \in 1..Len(s)}

\* All sequences over S of length 0..n.
SeqsUpTo(S, n) == UNION {[1..k -> S] : k \in 0..n}

\* All sequences over S of length 0..n without a repeated element.
DistinctSeqsUpTo(S, n) ==
    {s \in SeqsUpTo(S, n) : \A i, j \in 1..Len(s) : i # j => s[i] # s[j]}

-----------------------------------------------------------------------------
(* Python dict, as an insertion-ordered sequence of <<key, value>> pairs.    *)

DictKeys(d) == {d[i][1] : i \in 1..Len(d)}

DictHas(d, k) == \E i \in 1..Len(d) : d[i][1] = k

\* d[k]: defined for a key of d only (a missing key raises KeyError)
DictItem(d, k) == d[CHOOSE i \in 1..Len(d) : d[i][1] = k][2]

\* d.get(k, default)
DictGet(d, k, default) ==
    IF DictHas(d, k)
    THEN d[CHOOSE i \in 1..Len(d) : d[i][1] = k][2]
    ELSE default

\* d[k] = v
DictSet(d, k, v) ==
    IF DictHas(d, k)
    THEN [i \in 1..Len(d) |-> IF d[i][1] = k THEN <<k, v>> ELSE d[i]]
    ELSE Append(d, <<k, v>>)

-----------------------------------------------------------------------------
(* Python str, as the sequence of its code points.                           *)

\* ord(c), for the characters the model writes in quotes
Ord(c) ==
    CASE c = "\t" -> 9 [] c = "\n" -> 10 [] c = "\r" -> 13 [] c = " " -> 32
      [] c = "+" -> 43 [] c = "," -> 44 [] c = "-" -> 45 [] c = "." -> 46
      [] c = "0" -> 48 [] c = "1" -> 49 [] c = "2" -> 50 [] c = "3" -> 51
      [] c = "4" -> 52 [] c = "5" -> 53 [] c = "6" -> 54 [] c = "7" -> 55
      [] c = "8" -> 56 [] c = "9" -> 57 [] c = "=" -> 61
      [] c = "A" -> 65 [] c = "B" -> 66 [] c = "D" -> 68 [] c = "T" -> 84
      [] c = "_" -> 95 [] c = "a" -> 97 [] c = "d" -> 100 [] c = "e" -> 101
      [] c = "f" -> 102 [] c = "l" -> 108 [] c = "t" -> 116 [] c = "u" -> 117
      [] c = "v" -> 118 [] c = "x" -> 120

\* The str of a sequence of quoted characters.
Str(cs) == [i \in 1..Len(cs) |-> Ord(cs[i])]

\* The code points str.isspace() holds of, which str.strip() removes: the
\* ASCII controls 9-13 and 28-31, the space, NEL, the no-break space and the
\* Unicode separators (categories Zs, Zl, Zp).
Whitespace ==
    (9..13) \cup (28..31) \cup {32, 133, 160, 5760} \cup (8192..8202)
        \cup {8232, 8233, 8239, 8287, 12288}

\* The code points int() skips around a literal: those of str.strip() but
\* the ASCII separators 28-31, which int() takes for a part of the literal.
IntWhitespace == Whitespace \ (28..31)

\* The code point of the digit zero of every run of ten Unicode decimal
\* digits (category Nd, Unicode 14.0): the digits of a run are consecutive,
\* from zero to nine.
DigitZeros ==
    {48, 1632, 1776, 1984, 2406, 2534, 2662, 2790, 2918, 3046, 3174, 3302,
     3430, 3558, 3664, 3792, 3872, 4160, 4240, 6112, 6160, 6470, 6608, 6784,
     6800, 6992, 7088, 7232, 7248, 42528, 43216, 43264, 43472, 43504, 43600,
     44016, 65296, 66720, 68912, 69734, 69872, 69942, 70096, 70384, 70736,
     70864, 71248, 71360, 71472, 71904, 72016, 72784, 73040, 73120, 92768,
     92864, 93008, 120782, 120792, 120802, 120812, 120822, 123200, 123632,
     125264, 130032}

\* Whether int() reads c as a digit.
IsDigit(c) == \E z \in DigitZeros : z <= c /\ c <= z + 9

\* The value int() gives the digit c.
DigitVal(c) == c - (CHOOSE z \in DigitZeros : z <= c /\ c <= z + 9)

\* The places of s that are in the set `among`, in order.
Places(s, among) == SelectSeq([i \in 1..Len(s) |-> i], LAMBDA i : i \in among)

\* s without its leading characters of ws
LStrip(s, ws) ==
    LET kept == Places(s, {i \in 1..Len(s) : s[i] \notin ws})
    IN  IF kept = <<>> THEN <<>> ELSE SubSeq(s, kept[1], Len(s))

\* s without its trailing characters of ws
RStrip(s, ws) ==
    LET kept == Places(s, {i \in 1..Len(s) : s[i] \notin ws})
    IN  IF kept = <<>> THEN <<>> ELSE SubSeq(s, 1, kept[Len(kept)])

\* str.strip()
Strip(s) == RStrip(LStrip(s, Whitespace), Whitespace)

\* str.rstrip(c): every trailing c is removed
RStripChar(s, c) == RStrip(s, {c})

\* c in s
Contains(s, c) == \E i \in 1..Len(s) : s[i] = c

\* str.split(c): the pieces between separators, empty pieces included
Split(s, c) ==
    LET seps == Places(s, {i \in 1..Len(s) : s[i] = c})
        from(k) == IF k = 1 THEN 1 ELSE seps[k - 1] + 1
        to(k) == IF k = Len(seps) + 1 THEN Len(s) ELSE seps[k] - 1
    IN  [k \in 1..(Len(seps) + 1) |-> SubSeq(s, from(k), to(k))]

\* The digits-and-underscores part of an int literal: it starts and ends with
\* a digit and has no two underscores in a row.
IsDigitRun(b) ==
    /\ b # <<>>
    /\ \A i \in 1..Len(b) : IsDigit(b[i]) \/ b[i] = Ord("_")
    /\ IsDigit(b[1])
    /\ IsDigit(b[Len(b)])
    /\ \A i \in 1..(Len(b) - 1) : ~(b[i] = Ord("_") /\ b[i + 1] = Ord("_"))

\* The number of digits of a literal.
DigitCount(b) == Cardinality({i \in 1..Len(b) : IsDigit(b[i])})

Unsigned(t) == IF t # <<>> /\ t[1] \in {Ord("+"), Ord("-")} THEN Tail(t) ELSE t

\* The literal int() reads: s without the whitespace around it.
IntStrip(s) == RStrip(LStrip(s, IntWhitespace), IntWhitespace)

\* Whether int(s) returns a value (otherwise it raises ValueError): s holds,
\* between whitespace, an optional sign and a run of decimal digits, of no
\* more than 4300 digits (the default limit of sys.set_int_max_str_digits).
IsInt(s) ==
    LET b == Unsigned(IntStrip(s))
    IN  IsDigitRun(b) /\ DigitCount(b) <= 4300

\* The value of the digits of b from place i on, after the value acc of the
\* digits before; an underscore has no value.
RECURSIVE DigitsValue(_, _, _)
DigitsValue(b, i, acc) ==
    IF i > Len(b) THEN acc
    ELSE IF b[i] = Ord("_") THEN DigitsValue(b, i + 1, acc)
    ELSE DigitsValue(b, i + 1, 10 * acc + DigitVal(b[i]))

\* The value of a literal: that of its digits from the first one that is not
\* a zero (the zeros before it add nothing).
LiteralValue(b) ==
    LET nonzero == Places(b, {i \in 1..Len(b) :
                                 IsDigit(b[i]) /\ DigitVal(b[i]) # 0})
    IN  IF nonzero = <<>> THEN 0 ELSE DigitsValue(b, nonzero[1], 0)

\* int(s), for a string with IsInt(s)
IntValue(s) ==
    LET t == IntStrip(s)
        v == LiteralValue(Unsigned(t))
    IN  IF t[1] = Ord("-") THEN 0 - v ELSE v

-----------------------------------------------------------------------------
(* parse_level_file (lines 27-56).                                           *)

\* line 35 (text mode, universal newlines): "\r\n" and a lone "\r" are read
\* as "\n"
translate_newlines(text) ==
    LET kept == Places(text, {i \in 1..Len(text) :
                    ~(text[i] = Ord("\n") /\ i > 1 /\ text[i - 1] = Ord("\r"))})
    IN  [k \in 1..Len(kept) |->
            IF text[kept[k]] = Ord("\r") THEN Ord("\n") ELSE text[kept[k]]]

\* The lines of a text, each up to and with its "\n"; what follows the last
\* "\n" is a line too, unless it is empty.
split_lines(text) ==
    LET ends == Places(text, {i \in 1..Len(text) :
                                 text[i] = Ord("\n") \/ i = Len(text)})
        from(k) == IF k = 1 THEN 1 ELSE ends[k - 1] + 1
    IN  [k \in 1..Len(ends) |-> SubSeq(text, from(k), ends[k])]

\* line 36: infile.readlines()
readlines(text) == split_lines(translate_newlines(text))

\* line 44: stripped.lower().startswith("data=").  lower() maps a character
\* to "d", "a" or "t" only when it is that letter in either case, maps "="
\* alone to "=", and maps no character to the empty string, so the test is
\* one on the first five characters.
is_data_marker(stripped) ==
    /\ Len(stripped) >= 5
    /\ stripped[1] \in {Ord("d"), Ord("D")}
    /\ stripped[2] \in {Ord("a"), Ord("A")}
    /\ stripped[3] \in {Ord("t"), Ord("T")}
    /\ stripped[4] \in {Ord("a"), Ord("A")}
    /\ stripped[5] = Ord("=")

\* line 48 without the filter that drops the empty pieces
RowParts_keep_empty(stripped) == Split(RStripChar(stripped, Ord(",")), Ord(","))

\* line 48: the non-empty pieces of the line without its trailing commas
RowParts(stripped) ==
    SelectSeq(Split(RStripChar(stripped, Ord(",")), Ord(",")), LAMBDA p : p # <<>>)

\* lines 40-55, from line i on
RECURSIVE parse_loop(_, _, _, _)
parse_loop(ls, i, data_started, rows) ==
    IF i > Len(ls) THEN rows
    ELSE
      LET stripped == Strip(ls[i]) IN
      IF stripped = <<>>
      THEN parse_loop(ls, i + 1, data_started, rows)
      ELSE IF is_data_marker(stripped)
      THEN parse_loop(ls, i + 1, TRUE, rows)
      ELSE IF data_started \/ Contains(stripped, Ord(","))
      THEN LET parts == RowParts(stripped) IN
           IF Len(parts) # 5
           THEN parse_loop(ls, i + 1, data_started, rows)
           ELSE IF \E k \in 1..5 : ~IsInt(parts[k])
           THEN parse_loop(ls, i + 1, data_started, rows)
           ELSE parse_loop(ls, i + 1, data_started,
                           Append(rows, [k \in 1..5 |-> IntValue(parts[k])]))
      ELSE parse_loop(ls, i + 1, data_started, rows)

\* lines 35-56, of a file that opens and decodes to `text`
parse_level_file(text) == parse_loop(readlines(text), 1, FALSE, <<>>)

-----------------------------------------------------------------------------
(* analyze_chunks (lines 58-80).                                             *)

\* s[a:b] of Python: a negative index counts from the end, and both ends are
\* clamped to the sequence.
PySlice(s, a, b) ==
    LET n  == Len(s)
        lo == IF a < 0 THEN Max(a + n, 0) ELSE Min(a, n)
        hi == IF b < 0 THEN Max(b + n, 0) ELSE Min(b, n)
    IN  IF lo < hi THEN SubSeq(s, lo + 1, hi) ELSE <<>>

\* lines 73-76 for one row: the mapped items of the row are counted into freq
RECURSIVE count_row(_, _, _, _)
count_row(row, i, conv_map, freq) ==
    IF i > Len(row) THEN freq
    ELSE IF DictHas(conv_map, row[i])
    THEN count_row(row, i + 1, conv_map,
                   DictSet(freq, row[i], DictGet(freq, row[i], 0) + 1))
    ELSE count_row(row, i + 1, conv_map, freq)

\* lines 72-76: the frequency table of one window
RECURSIVE count_window(_, _, _, _)
count_window(window, r, conv_map, freq) ==
    IF r > Len(window) THEN freq
    ELSE count_window(window, r + 1, conv_map,
                      count_row(window[r], 1, conv_map, freq))

\* lines 77-79: the running maxima raised by one window's frequencies
RECURSIVE raise_max(_, _, _)
raise_max(freq, i, maxc) ==
    IF i > Len(freq) THEN maxc
    ELSE IF freq[i][2] > DictItem(maxc, freq[i][1])
    THEN raise_max(freq, i + 1, DictSet(maxc, freq[i][1], freq[i][2]))
    ELSE raise_max(freq, i + 1, maxc)

\* lines 70-79 with range(0, total_rows - size): the last window is left out
RECURSIVE window_loop_short(_, _, _, _, _)
window_loop_short(rows, size, conv_map, start, maxc) ==
    IF start >= Len(rows) - size THEN maxc
    ELSE LET window == PySlice(rows, start, start + size)
             freq   == count_window(window, 1, conv_map, <<>>)
         IN  window_loop_short(rows, size, conv_map, start + 1,
                               raise_max(freq, 1, maxc))

\* lines 70-79: the windows from `start` on; range(0, total_rows - size + 1)
RECURSIVE window_loop(_, _, _, _, _)
window_loop(rows, size, conv_map, start, maxc) ==
    IF start >= Len(rows) - size + 1 THEN maxc
    ELSE LET window == PySlice(rows, start, start + size)
             freq   == count_window(window, 1, conv_map, <<>>)
         IN  window_loop(rows, size, conv_map, start + 1,
                         raise_max(freq, 1, maxc))

\* line 67
zero_counts(conv_map) ==
    [i \in 1..Len(conv_map) |-> <<conv_map[i][1], 0>>]

analyze_chunks(rows, size, conv_map) ==
    window_loop(rows, size, conv_map, 0, zero_counts(conv_map))

-----------------------------------------------------------------------------
(* generate_geobuffer_list (lines 82-96).                                    *)

\* lines 90-93 with `geo_dict[(x, y)] = count`: a later id of a category
\* replaces the total instead of adding to it
RECURSIVE fold_counts_overwrite(_, _, _, _)
fold_counts_overwrite(conv_map, i, maxc, geo_dict) ==
    IF i > Len(conv_map) THEN geo_dict
    ELSE LET level_id == conv_map[i][1]
             xy       == conv_map[i][2]
             count    == DictGet(maxc, level_id, 0)
         IN  IF count > 0
             THEN fold_counts_overwrite(conv_map, i + 1, maxc,
                                        DictSet(geo_dict, xy, count))
             ELSE fold_counts_overwrite(conv_map, i + 1, maxc, geo_dict)

\* lines 90-93: the fold over conv_map, from entry i on
RECURSIVE fold_counts(_, _, _, _)
fold_counts(conv_map, i, maxc, geo_dict) ==
    IF i > Len(conv_map) THEN geo_dict
    ELSE LET level_id == conv_map[i][1]
             xy       == conv_map[i][2]
             count    == DictGet(maxc, level_id, 0)
         IN  IF count > 0
             THEN fold_counts(conv_map, i + 1, maxc,
                              DictSet(geo_dict, xy, DictGet(geo_dict, xy, 0) + count))
             ELSE fold_counts(conv_map, i + 1, maxc, geo_dict)

\* line 94
geo_tuples(geo_dict) ==
    [i \in 1..Len(geo_dict) |->
        <<geo_dict[i][1][1], geo_dict[i][1][2], geo_dict[i][2]>>]

\* line 95 with a key that orders on (x, y)
sort_key_xy(tup) == tup[1] * 1000 + tup[2]

\* line 95: the key of the sort
sort_key(tup) == tup[1]

\* One step of a stable sort: e goes after every element whose key is not
\* greater than its own.
RECURSIVE insert_sorted(_, _)
insert_sorted(sorted, e) ==
    IF sorted = <<>> THEN <<e>>
    ELSE IF sort_key(Head(sorted)) <= sort_key(e)
    THEN <<Head(sorted)>> \o insert_sorted(Tail(sorted), e)
    ELSE <<e>> \o sorted

\* line 95: list.sort(key=...) is stable
RECURSIVE sort_from(_, _, _)
sort_from(s, i, sorted) ==
    IF i > Len(s) THEN sorted
    ELSE sort_from(s, i + 1, insert_sorted(sorted, s[i]))

list_sort(s) == sort_from(s, 1, <<>>)

generate_geobuffer_list(conv_map, maxc) ==
    list_sort(geo_tuples(fold_counts(conv_map, 1, maxc, <<>>)))

-----------------------------------------------------------------------------
(* write_output (lines 98-110).                                              *)

\* The character of a digit 0..9.
DigitChar(d) == Ord("0") + d

RECURSIVE NatStr(_)
NatStr(n) ==
    IF n < 10 THEN <<DigitChar(n)>>
    ELSE NatStr(n \div 10) \o <<DigitChar(n % 10)>>

\* str(n) of an int
IntStr(n) == IF n < 0 THEN <<Ord("-")>> \o NatStr(0 - n) ELSE NatStr(n)

\* line 106: f"{x},{y},{z}\n"
format_line(tup) ==
    IntStr(tup[1]) \o <<Ord(",")>> \o IntStr(tup[2]) \o <<Ord(",")>>
        \o IntStr(tup[3]) \o <<Ord("\n")>>

\* lines 105-106: the lines written for a list
output_lines(list) == [i \in 1..Len(list) |-> format_line(list[i])]

-----------------------------------------------------------------------------
(* The module-level code: the preset, the configuration loading and the      *)
(* roller override.                                                          *)

\* lines 15-23
PRESET_GEOBUFFER0 == <<
    <<0,0,100>>, <<1,0,20>>, <<2,0,15>>, <<3,0,12>>, <<4,0,5>>, <<5,0,10>>,
    <<6,0,80>>, <<7,0,15>>, <<8,0,10>>, <<9,0,15>>,
    <<10,0,45>>, <<11,0,30>>, <<12,0,90>>, <<13,0,70>>, <<14,0,120>>,
    <<30,4,10>>, <<44,4,20>>, <<62,4,5>>, <<64,4,10>>,
    <<70,2,10>>, <<71,2,2>>, <<72,2,10>>, <<73,2,15>>, <<77,5,40>>,
    <<78,5,50>>, <<80,9,60>>, <<81,9,60>>,
    <<82,9,45>>, <<83,9,45>>, <<84,9,20>>, <<85,9,20>>, <<86,9,60>>,
    <<87,9,40>>, <<88,9,10>>, <<89,9,40>>, <<90,9,40>>,
    <<91,9,40>>, <<92,9,40>>, <<93,9,40>>, <<94,9,40>>, <<95,9,40>>,
    <<96,9,40>>, <<97,9,40>>, <<98,9,40>>,
    <<99,9,40>>, <<100,9,40>>, <<101,8,650>>, <<103,10,1>>, <<104,10,2>>,
    <<105,6,1>>, <<107,10,1>>,
    <<108,6,1>>, <<109,6,1>>, <<112,1,60>>, <<114,10,50>>, <<217,6,10>>,
    <<218,6,3>>, <<233,9,40>>, <<364,10,1>> >>

\* lines 10-12 for one group: every id of the group gets the group's category
RECURSIVE load_group(_, _, _, _)
load_group(ids, i, to, conv_map) ==
    IF i > Len(ids) THEN conv_map
    ELSE load_group(ids, i + 1, to, DictSet(conv_map, ids[i], to))

\* lines 10-12: the groups in order, a later group overwriting an earlier one
RECURSIVE load_mapping(_, _, _)
load_mapping(groups, g, conv_map) ==
    IF g > Len(groups) THEN conv_map
    ELSE load_mapping(groups, g + 1,
                      load_group(groups[g].ids, 1, groups[g].to, conv_map))

\* line 175
ROLLER_IDS == <<41, 42, 43, 44, 579, 580, 587, 588>>

\* A file that open() does not find.
FileAbsent == [t |-> "absent", v |-> <<>>]

\* A roller configuration file is absent, is not JSON ("invalid"), or holds a
\* list of entries; json.load of the first two raises.

FileInvalid == [t |-> "invalid", v |-> <<>>]

FileList(entries) == [t |-> "list", v |-> entries]

\* rm_data = None
NoData == [t |-> "none", v |-> <<>>]

\* lines 181-189: the first file that loads wins
RECURSIVE load_roller_data(_, _)
load_roller_data(files, i) ==
    IF i > Len(files) THEN NoData
    ELSE IF files[i].t = "list" THEN files[i]
    ELSE load_roller_data(files, i + 1)

\* lines 191-196, from entry i on.  An entry's name is a str ("" when the key
\* is missing: `not name` holds of both); its "to" is tagged a list or not.
RECURSIVE load_roller_entries(_, _, _)
load_roller_entries(entries, i, rmaps) ==
    IF i > Len(entries) THEN rmaps
    ELSE LET name == entries[i].name
             to   == entries[i].to
         IN  IF name = <<>> \/ to.t # "list"
             THEN load_roller_entries(entries, i + 1, rmaps)
             ELSE load_roller_entries(entries, i + 1,
                      DictSet(rmaps, Strip(name), <<to.v[1], to.v[2]>>))

\* lines 179, 190-196: `if rm_data:` is false of None and of an empty list
load_roller_mappings(rmd) ==
    IF rmd.t = "list" /\ rmd.v # <<>>
    THEN load_roller_entries(rmd.v, 1, <<>>)
    ELSE <<>>

\* "Default" (lines 200, 205, 226)
DefaultName == Str(<<"D", "e", "f", "a", "u", "l", "t">>)

\* line 200: the hardcoded fallback
FallbackCategory == <<24, 4>>

\* line 200 without the "Default" entry as the fallback of a missing name
roller_lookup_no_default(rmaps, name) ==
    DictGet(rmaps, name, FallbackCategory)

\* line 200
roller_lookup(rmaps, name) ==
    DictGet(rmaps, name, DictGet(rmaps, DefaultName, FallbackCategory))

\* lines 201-202 changing only the roller ids the table already holds
RECURSIVE set_rollers_existing(_, _, _)
set_rollers_existing(conv_map, i, mapping) ==
    IF i > Len(ROLLER_IDS) THEN conv_map
    ELSE IF DictHas(conv_map, ROLLER_IDS[i])
    THEN set_rollers_existing(DictSet(conv_map, ROLLER_IDS[i], mapping), i + 1, mapping)
    ELSE set_rollers_existing(conv_map, i + 1, mapping)

\* lines 201-202, from roller id i on
RECURSIVE set_rollers(_, _, _)
set_rollers(conv_map, i, mapping) ==
    IF i > Len(ROLLER_IDS) THEN conv_map
    ELSE set_rollers(DictSet(conv_map, ROLLER_IDS[i], mapping), i + 1, mapping)

\* lines 198-202
apply_roller_mapping(conv_map, rmaps, name) ==
    set_rollers(conv_map, 1, roller_lookup(rmaps, name))

-----------------------------------------------------------------------------
(* run_processing (lines 131-162) and the files it reads.                    *)

\* A level file whose bytes are no UTF-8: readlines raises UnicodeDecodeError.
FileUndecodable == [t |-> "undecodable", v |-> <<>>]

\* A level file that decodes to `text`.
FileText(text) == [t |-> "text", v |-> text]

\* The files on disk, by path.  No output path of the model is the path of a
\* level file, so a run leaves the level files as they are.
DiskFile(path) ==
    CASE path = "empty.txt" -> FileText(<<>>)
      [] path = "binary.txt" -> FileUndecodable
      [] path = "junk.txt" ->
            FileText(Str(<<"l", "e", "v", "e", "l", "\n",
                           "1", ",", "2", ",", "1", ",", "2", "\r",
                           "1", ",", "2", ",", "x", ",", "2", ",", "1", "\n">>))
      [] path = "nomatch.txt" ->
            FileText(Str(<<"9", ",", "9", ",", "9", ",", "9", ",", "9", "\n",
                           "\n",
                           "9", ",", "9", ",", "9", ",", "9", ",", "9", ",", "\n">>))
      [] path = "level.txt" ->
            \* "Data=", "1,1,2,9,41" + form feed, "2,2,2,9,9" with an
            \* Arabic-Indic two, "1,9,9,9,9,"
            FileText(Str(<<"D", "a", "t", "a", "=", "\n",
                           "1", ",", "1", ",", "2", ",", "9", ",", "4", "1">>)
                     \o <<12>> \o Str(<<"\r", "\n">>)
                     \o <<1634>> \o Str(<<",", "2", ",", "2", ",", "9", ",", "9", "\n",
                           "1", ",", "9", ",", "9", ",", "9", ",", "9", ",">>))
      [] OTHER -> FileAbsent

\* The output paths that open(filepath, 'w') can open.
Writable(path) == path # "readonly/out.txt"

NotWritten == [done |-> FALSE, content |-> <<>>]

\* The locals of a run that has not reached them yet.
NoRun ==
    [file_text |-> <<>>, lines |-> <<>>, level_rows |-> <<>>, chunk_size |-> 0,
     max_counts |-> <<>>, geobuffer_list |-> <<>>, calls |-> <<>>,
     message |-> "", raised |-> "", written |-> NotWritten]

\* lines 154-156 with the preset after the computed entries
inject_preset_after(flag, list) == IF flag THEN list \o PRESET_GEOBUFFER0 ELSE list

\* lines 154-156
inject_preset(flag, list) == IF flag THEN PRESET_GEOBUFFER0 \o list ELSE list

\* lines 158-162: the run from the empty-list test on
finish_run(r, outp) ==
    IF r.geobuffer_list = <<>>
    THEN [r EXCEPT !.message = "No matching item IDs were found in the level data."]
    ELSE IF Writable(outp)
    THEN [r EXCEPT !.calls = Append(r.calls, "write_output"),
                   !.written = [done |-> TRUE,
                                content |-> output_lines(r.geobuffer_list)],
                   !.message = "GeoBuffer information written"]
    ELSE [r EXCEPT !.calls = Append(r.calls, "write_output"),
                   !.message = "Error writing output file"]

\* lines 151-156: analysis, aggregation and the preset
analyze_run(r, flag, conv_map) ==
    LET maxc == analyze_chunks(r.level_rows, r.chunk_size, conv_map)
        geo  == generate_geobuffer_list(conv_map, maxc)
    IN  [r EXCEPT !.max_counts = maxc,
                  !.geobuffer_list = inject_preset(flag, geo),
                  !.calls = r.calls \o <<"analyze_chunks", "generate_geobuffer_list">>
                                \o (IF flag THEN <<"prepend_preset">> ELSE <<>>)]

\* line 147 with `level_rows is None` for `not level_rows`: no list is None
no_level_data_is_none(rows) == FALSE

\* line 147: `not level_rows`
no_level_data(rows) == rows = <<>>

\* lines 146-162: the run from the call of the parser on.  The exception of a
\* file that does not open (line 35) or decode (line 36) is caught nowhere: it
\* leaves run_processing, and the run shows no message and writes nothing.
read_run(r, file, outp, flag, conv_map) ==
    IF file.t = "absent"
    THEN [r EXCEPT !.calls = <<"parse_level_file">>,
                   !.raised = "FileNotFoundError"]
    ELSE IF file.t = "undecodable"
    THEN [r EXCEPT !.calls = <<"parse_level_file">>,
                   !.raised = "UnicodeDecodeError"]
    ELSE LET rows == parse_level_file(file.v)
             r0   == [r EXCEPT !.file_text = file.v,
                               !.lines = readlines(file.v),
                               !.level_rows = rows,
                               !.calls = <<"parse_level_file">>]
         IN  IF no_level_data(rows)
             THEN [r0 EXCEPT !.message = "No valid level data found in the file."]
             ELSE finish_run(analyze_run(r0, flag, conv_map), outp)

\* lines 132-162: what one press of the run button leaves behind
run_result(inp, outp, chunk_text, flag, conv_map) ==
    IF inp = ""
    THEN [NoRun EXCEPT !.message = "Please select an input file."]
    ELSE IF outp = ""
    THEN [NoRun EXCEPT !.message = "Please select an output file."]
    ELSE IF ~IsInt(chunk_text)
    THEN [NoRun EXCEPT !.message = "Chunk size must be an integer."]
    ELSE read_run([NoRun EXCEPT !.chunk_size = IntValue(chunk_text)],
                  DiskFile(inp), outp, flag, conv_map)

-----------------------------------------------------------------------------
(* The inputs of the model.                                                  *)

\* The most lines of a level file the parser specification reads.
MaxLines == 3

\* The longest grid the analyzer specification analyzes.
MaxRows == 3

\* The largest max count the aggregator specification folds.
MaxCount == 2

\* The longest roller configuration list.
MaxRollerEntries == 2

\* The pieces level files are made of: blank lines (one of them of separator
\* controls), markers, rows ending in a comma, a form feed and "\r\n", doubled
\* separators without a line end, numbers padded with a no-break space,
\* signed, underscored and in Arabic-Indic digits, rows of the wrong arity,
\* rows with a token that is no integer (a letter, a blank, a digit behind a
\* separator control) and a line without a comma.
SampleLines ==
    { Str(<<"\n">>),
      <<28>> \o Str(<<" ", "\t", "\r">>),
      Str(<<"d", "a", "t", "a", "=", "\n">>),
      Str(<<" ", "D", "A", "T", "A", "=", "1", ",", "2", ",", "1", ",", "2", ",", "1", "\n">>),
      Str(<<"1", ",", "2", ",", "1", ",", "2", ",", "1", "\n">>),
      Str(<<"2", ",", "2", ",", "1", ",", "1", ",", "2", ",">>) \o <<12>> \o Str(<<"\r", "\n">>),
      Str(<<"1", ",", ",", "2", ",", "1", ",", "2", ",", "2", ",", ",">>),
      <<160>> \o Str(<<"1", ",", " ", "2", ",", "-", "1", ",", "+">>) \o <<1634>>
          \o Str(<<",", "1", "_", "0", " ", "\n">>),
      Str(<<"1", ",", "2", ",", "1", ",", "2", "\n">>),
      Str(<<"1", ",", "2", ",", "1", ",", "2", ",", "1", ",", "2", "\n">>),
      Str(<<"1", ",", "2", ",", "x", ",", "2", ",", "1", "\n">>),
      Str(<<"1", ",", "2", ",", " ", ",", "2", ",", "1", "\n">>),
      Str(<<"1", ",", "2", ",">>) \o <<28>> \o Str(<<"1", ",", "2", ",", "1", "\n">>),
      Str(<<"1", "2", "1", "2", "1", "\n">>) }

RECURSIVE Concat(_)
Concat(ss) == IF ss = <<>> THEN <<>> ELSE Head(ss) \o Concat(Tail(ss))

\* The texts of the level files the parser specification reads.
SampleTexts == {Concat(ls) : ls \in SeqsUpTo(SampleLines, MaxLines)}

\* The item ids in the cells of the analyzed grids.
ItemIds == {1, 2}

\* The item ids of the mapping tables: id 3 is in no cell.
FoldIds == {1, 2, 3}

Categories == {<<0, 0>>, <<0, 1>>, <<1, 0>>}

\* The rows of the analyzed grids: 5 cells, in nondecreasing order (a count
\* does not depend on where in its row a cell is).
SampleRows ==
    {r \in [1..5 -> ItemIds] : \A i \in 1..4 : r[i] <= r[i + 1]}

\* The mapping tables over a set of ids: any subset, in any insertion order.
ConvMaps(ids) ==
    UNION { {[i \in 1..Len(ks) |-> <<ks[i], cs[i]>>] : cs \in [1..Len(ks) -> Categories]}
            : ks \in DistinctSeqsUpTo(ids, Cardinality(ids)) }

\* The mapping tables the analyzer is given: any subset of the ids, in any
\* insertion order (the analyzer reads the keys only).
KeyedMaps(ids) ==
    {[i \in 1..Len(ks) |-> <<ks[i], <<0, 0>>>>]
        : ks \in DistinctSeqsUpTo(ids, Cardinality(ids))}

\* The max-count tables of a mapping table: its keys, in its order.
CountTables(conv_map) ==
    {[i \in 1..Len(conv_map) |-> <<conv_map[i][1], cs[i]>>]
        : cs \in [1..Len(conv_map) -> 0..MaxCount]}

\* The primary mapping configurations: none, no roller id, some roller ids,
\* every roller id with an id in two groups.
PrimaryConfigs ==
    { <<>>,
      << [ids |-> <<1, 2>>, to |-> <<5, 0>>] >>,
      << [ids |-> <<1, 41>>, to |-> <<5, 0>>], [ids |-> <<2, 588>>, to |-> <<3, 1>>] >>,
      << [ids |-> <<2, 1>>, to |-> <<5, 0>>],
         [ids |-> <<2, 41, 42, 43, 44, 579, 580, 587, 588>>, to |-> <<3, 1>>] >> }

NameA == Str(<<"A">>)

NameB == Str(<<"B">>)

\* "A" between a space and a separator control, both of which strip() removes
PaddedNameA == Str(<<" ", "A">>) \o <<28>>

\* The names of roller configuration entries as written in the file.
RawNames == {<<>>, DefaultName, NameA, PaddedNameA}

ToValues ==
    { [t |-> "null", v |-> <<>>],
      [t |-> "list", v |-> <<7, 7>>],
      [t |-> "list", v |-> <<5, 0>>] }

RollerEntries == [name : RawNames, to : ToValues]

RollerLists == SeqsUpTo(RollerEntries, MaxRollerEntries)

\* roller_mappings.json and roller_mapping.json: the second is read only when
\* the first does not load.
RollerFiles ==
    {<<FileList(es), FileAbsent>> : es \in RollerLists}
    \cup {<<f, FileList(es)>> : f \in {FileAbsent, FileInvalid}, es \in RollerLists}
    \cup {<<f, g>> : f \in {FileAbsent, FileInvalid}, g \in {FileAbsent, FileInvalid}}

\* The names apply_roller_mapping is called with.
Selections == {DefaultName, NameA, NameB, PaddedNameA}

\* The level files the dialog of line 115 offers: the files on disk.
InputPaths == {"empty.txt", "binary.txt", "junk.txt", "nomatch.txt", "level.txt"}

\* What the user types into the entry of line 212: the path of a file on
\* disk, the path of no file, or nothing.
TypedInputPaths == InputPaths \cup {"missing.txt", ""}

\* The paths the dialog of line 123 returns.
OutputPaths == {"out.txt", "readonly/out.txt"}

\* What the user types into the entry of line 217.
TypedOutputPaths == OutputPaths \cup {""}

\* What the user types as the window size: "200", "2" behind a form feed
\* (which int() skips), "0", "-1", "2.5", and "2" behind a separator control
\* (which int() does not skip).
ChunkTexts ==
    { Str(<<"2", "0", "0">>), <<12>> \o Str(<<"2">>), Str(<<"0">>),
      Str(<<"-", "1">>), Str(<<"2", ".", "5">>), <<28>> \o Str(<<"2">>) }

-----------------------------------------------------------------------------
(* The application: startup and the handlers of the window.                  *)

\* lines 5-12, 166-205, 226: the state when the main loop starts
Startup(d, files) ==
    /\ data = d
    /\ rm_data = load_roller_data(files, 1)
    /\ roller_mappings = load_roller_mappings(rm_data)
    /\ conversion_map =
           apply_roller_mapping(load_mapping(d, 1, <<>>), roller_mappings, DefaultName)
    /\ selection = DefaultName
    /\ roller_var = DefaultName
    /\ input_file_var = ""
    /\ output_file_var = ""
    /\ chunk_size_var = Str(<<"2", "0", "0">>)
    /\ add_geobuffer0_var = TRUE
    /\ file_text = NoRun.file_text
    /\ lines = NoRun.lines
    /\ level_rows = NoRun.level_rows
    /\ chunk_size = NoRun.chunk_size
    /\ max_counts = NoRun.max_counts
    /\ geobuffer_list = NoRun.geobuffer_list
    /\ calls = NoRun.calls
    /\ message = NoRun.message
    /\ raised = NoRun.raised
    /\ written = NoRun.written

run_vars == <<file_text, lines, level_rows, chunk_size, max_counts, geobuffer_list,
              calls, message, raised, written>>

config_vars == <<data, rm_data, roller_mappings>>

roller_vars == <<conversion_map, roller_var, selection>>

gui_vars == <<input_file_var, output_file_var, chunk_size_var, add_geobuffer0_var>>

\* lines 114-120: a cancelled dialog returns "" and changes nothing
select_input_file ==
    /\ \E filename \in InputPaths \cup {""} :
          input_file_var' = IF filename # "" THEN filename ELSE input_file_var
    /\ UNCHANGED <<config_vars, roller_vars, output_file_var,
                   chunk_size_var, add_geobuffer0_var, run_vars>>

\* lines 122-129
select_output_file ==
    /\ \E filename \in OutputPaths \cup {""} :
          output_file_var' = IF filename # "" THEN filename ELSE output_file_var
    /\ UNCHANGED <<config_vars, roller_vars, input_file_var,
                   chunk_size_var, add_geobuffer0_var, run_vars>>

\* line 212: the entry bound to input_file_var takes any text
edit_input_file ==
    /\ \E text \in TypedInputPaths : input_file_var' = text
    /\ UNCHANGED <<config_vars, roller_vars, output_file_var,
                   chunk_size_var, add_geobuffer0_var, run_vars>>

\* line 217: the entry bound to output_file_var takes any text
edit_output_file ==
    /\ \E text \in TypedOutputPaths : output_file_var' = text
    /\ UNCHANGED <<config_vars, roller_vars, input_file_var,
                   chunk_size_var, add_geobuffer0_var, run_vars>>

\* line 222: the entry bound to chunk_size_var
edit_chunk_size ==
    /\ \E text \in ChunkTexts : chunk_size_var' = text
    /\ UNCHANGED <<config_vars, roller_vars, input_file_var,
                   output_file_var, add_geobuffer0_var, run_vars>>

\* line 232: the checkbox bound to add_geobuffer0_var
toggle_geobuffer0 ==
    /\ add_geobuffer0_var' = ~add_geobuffer0_var
    /\ UNCHANGED <<config_vars, roller_vars, input_file_var,
                   output_file_var, chunk_size_var, run_vars>>

\* lines 227-229: the read-only combobox offers the names of roller_mappings;
\* a selection sets roller_var and calls apply_roller_mapping(roller_var.get())
select_roller ==
    /\ \E name \in DictKeys(roller_mappings) :
          /\ roller_var' = name
          /\ selection' = name
          /\ conversion_map' =
                 apply_roller_mapping(conversion_map, roller_mappings, name)
    /\ UNCHANGED <<config_vars, gui_vars, run_vars>>

\* lines 198-202: apply_roller_mapping called with any name; it writes
\* conversion_map only
apply_roller_step ==
    /\ \E name \in Selections :
          /\ selection' = name
          /\ conversion_map' =
                 apply_roller_mapping(conversion_map, roller_mappings, name)
    /\ UNCHANGED <<config_vars, roller_var, gui_vars, run_vars>>

\* lines 131-162
run_processing ==
    /\ \E r \in {run_result(input_file_var, output_file_var, chunk_size_var,
                             add_geobuffer0_var, conversion_map)} :
          /\ file_text' = r.file_text
          /\ lines' = r.lines
          /\ level_rows' = r.level_rows
          /\ chunk_size' = r.chunk_size
          /\ max_counts' = r.max_counts
          /\ geobuffer_list' = r.geobuffer_list
          /\ calls' = r.calls
          /\ message' = r.message
          /\ raised' = r.raised
          /\ written' = r.written
    /\ UNCHANGED <<config_vars, roller_vars, gui_vars>>

\* The configurations the application specification starts from.
RunConfigs ==
    { << [ids |-> <<1, 41>>, to |-> <<5, 0>>], [ids |-> <<2, 588>>, to |-> <<3, 1>>] >> }

\* The roller configurations the application specification starts from: no
\* file loads, or the second file names two roller mappings.
RunRollerFiles ==
    { <<FileAbsent, FileInvalid>>,
      <<FileInvalid,
        FileList(<< [name |-> DefaultName, to |-> [t |-> "list", v |-> <<7, 7>>]],
                    [name |-> PaddedNameA, to |-> [t |-> "list", v |-> <<5, 0>>]] >>)>> }

Init == \E d \in RunConfigs, files \in RunRollerFiles : Startup(d, files)

Next ==
    \/ select_input_file
    \/ select_output_file
    \/ edit_input_file
    \/ edit_output_file
    \/ edit_chunk_size
    \/ toggle_geobuffer0
    \/ select_roller
    \/ run_processing

Spec == Init /\ [][Next]_vars

-----------------------------------------------------------------------------
(* The roller override alone, over every configuration of the model.         *)

InitRoller == \E d \in PrimaryConfigs, files \in RollerFiles : Startup(d, files)

NextRoller == apply_roller_step

SpecRoller == InitRoller /\ [][NextRoller]_vars

-----------------------------------------------------------------------------
(* The functions of the pipeline alone, each applied to inputs drawn from    *)
(* the sets above.                                                           *)

\* The state of a function specification apart from the function's inputs.
Idle ==
    /\ data = <<>>
    /\ rm_data = NoData
    /\ roller_mappings = <<>>
    /\ roller_var = DefaultName
    /\ selection = DefaultName
    /\ input_file_var = ""
    /\ output_file_var = ""
    /\ chunk_size_var = Str(<<"2", "0", "0">>)
    /\ add_geobuffer0_var = TRUE
    /\ calls = <<>>
    /\ message = ""
    /\ raised = ""
    /\ written = NotWritten

InitParse ==
    /\ Idle
    /\ file_text \in SampleTexts
    /\ lines = <<>>
    /\ conversion_map = <<>>
    /\ level_rows = <<>>
    /\ chunk_size = 0
    /\ max_counts = <<>>
    /\ geobuffer_list = <<>>

\* level_rows = parse_level_file(path), of a file that holds file_text
parse_step ==
    /\ calls = <<>>
    /\ lines' = readlines(file_text)
    /\ level_rows' = parse_level_file(file_text)
    /\ calls' = <<"parse_level_file">>
    /\ UNCHANGED <<config_vars, roller_vars, gui_vars, file_text,
                   chunk_size, max_counts, geobuffer_list, message, raised, written>>

SpecParse == InitParse /\ [][parse_step]_vars

InitAnalyze ==
    /\ Idle
    /\ file_text = <<>>
    /\ lines = <<>>
    /\ level_rows \in SeqsUpTo(SampleRows, MaxRows)
    /\ chunk_size \in (0 - 1)..(MaxRows + 1)
    /\ conversion_map \in KeyedMaps(FoldIds)
    /\ max_counts = <<>>
    /\ geobuffer_list = <<>>

\* max_counts = analyze_chunks(level_rows, chunk_size, conversion_map)
analyze_step ==
    /\ calls = <<>>
    /\ max_counts' = analyze_chunks(level_rows, chunk_size, conversion_map)
    /\ calls' = <<"analyze_chunks">>
    /\ UNCHANGED <<config_vars, roller_vars, gui_vars, file_text, lines,
                   level_rows, chunk_size, geobuffer_list, message, raised, written>>

SpecAnalyze == InitAnalyze /\ [][analyze_step]_vars

InitAggregate ==
    /\ Idle
    /\ file_text = <<>>
    /\ lines = <<>>
    /\ level_rows = <<>>
    /\ chunk_size = 0
    /\ conversion_map \in ConvMaps(FoldIds)
    /\ max_counts \in CountTables(conversion_map)
    /\ geobuffer_list = <<>>

\* geobuffer_list = generate_geobuffer_list(conversion_map, max_counts)
aggregate_step ==
    /\ calls = <<>>
    /\ geobuffer_list' = generate_geobuffer_list(conversion_map, max_counts)
    /\ calls' = <<"generate_geobuffer_list">>
    /\ UNCHANGED <<config_vars, roller_vars, gui_vars, file_text, lines,
                   level_rows, chunk_size, max_counts, message, raised, written>>

SpecAggregate == InitAggregate /\ [][aggregate_step]_vars

-----------------------------------------------------------------------------
(* The window analyzer (C1).                                                 *)

\* The number of cells equal to id in rows a..b of the grid (rows from 1).
CountIn(rows, a, b, id) ==
    Cardinality({rc \in (a..b) \X (1..5) : rows[rc[1]][rc[2]] = id})

\* The largest count of id over the windows of W rows, 0 when there is none.
WindowMax(rows, W, id) ==
    LET counts == {CountIn(rows, s + 1, s + W, id) : s \in 0..(Len(rows) - W)}
    IN  IF counts = {} THEN 0
        ELSE CHOOSE m \in counts : \A c \in counts : c <= m

analyzed == calls = <<"analyze_chunks">>

\* C1: for a positive window size W, analyze_chunks returns a table whose
\* keys are exactly the ids of the mapping table, each id's value being the
\* largest number of cells equal to it in any W consecutive rows; every value
\* is 0 when W exceeds the grid length, and the count over the whole grid
\* when W equals it.
C1_WindowMaxima ==
    (analyzed /\ chunk_size > 0) =>
        /\ DictKeys(max_counts) = DictKeys(conversion_map)
        /\ Len(max_counts) = Len(conversion_map)
        /\ \A id \in DictKeys(conversion_map) :
              /\ DictGet(max_counts, id, 0 - 1) = WindowMax(level_rows, chunk_size, id)
              /\ chunk_size > Len(level_rows) => DictGet(max_counts, id, 0 - 1) = 0
              /\ chunk_size = Len(level_rows) =>
                     DictGet(max_counts, id, 0 - 1) =
                         CountIn(level_rows, 1, Len(level_rows), id)

\* A grid of three rows and a window of two where a mapped id reaches its
\* maximum in the second window only, and another mapped id never occurs.
C1_Witness ==
    /\ analyzed
    /\ chunk_size = 2
    /\ Len(level_rows) = 3
    /\ \E id \in DictKeys(conversion_map) :
          /\ CountIn(level_rows, 1, 2, id) < CountIn(level_rows, 2, 3, id)
          /\ DictGet(max_counts, id, 0) = CountIn(level_rows, 2, 3, id)
    /\ \E id \in DictKeys(conversion_map) : DictGet(max_counts, id, 1) = 0

-----------------------------------------------------------------------------
(* The aggregator (C2, C3).                                                  *)

aggregated == calls = <<"generate_geobuffer_list">>

\* The ids the mapping table maps to category c.
IdsOf(c) == {id \in DictKeys(conversion_map) : DictGet(conversion_map, id, <<>>) = c}

RECURSIVE SumCounts(_)
SumCounts(ids) ==
    IF ids = {} THEN 0
    ELSE LET id == CHOOSE x \in ids : TRUE
         IN  DictGet(max_counts, id, 0) + SumCounts(ids \ {id})

\* The categories with an id whose max count is not 0.
LiveCategories ==
    {DictGet(conversion_map, id, <<>>) :
        id \in {x \in DictKeys(conversion_map) : DictGet(max_counts, x, 0) # 0}}

EntryCategory(e) == <<e[1], e[2]>>

\* C2: generate_geobuffer_list emits exactly one entry per category that has
\* an id with a nonzero max count; the entry's count is the sum of the max
\* counts of all the ids mapped to the category and is never 0; the mapping
\* table being drawn in every insertion order, the totals do not depend on
\* the order of the fold.
C2_CategoryTotals ==
    aggregated =>
        /\ {EntryCategory(geobuffer_list[i]) : i \in 1..Len(geobuffer_list)}
               = LiveCategories
        /\ Len(geobuffer_list) = Cardinality(LiveCategories)
        /\ \A i \in 1..Len(geobuffer_list) :
              /\ geobuffer_list[i][3] = SumCounts(IdsOf(EntryCategory(geobuffer_list[i])))
              /\ geobuffer_list[i][3] # 0

\* Two ids with nonzero counts share a category, a third id has count 0 and
\* its category gets no entry.
C2_Witness ==
    /\ aggregated
    /\ \E a, b \in DictKeys(conversion_map) :
          /\ a # b
          /\ DictGet(conversion_map, a, <<>>) = DictGet(conversion_map, b, <<>>)
          /\ DictGet(max_counts, a, 0) > 0
          /\ DictGet(max_counts, b, 0) > 0
    /\ \E z \in DictKeys(conversion_map) :
          /\ DictGet(max_counts, z, 1) = 0
          /\ DictGet(conversion_map, z, <<>>) \notin LiveCategories
    /\ Len(geobuffer_list) = 1

\* The place in the mapping table of the first id with a nonzero max count
\* that maps to category c.
FirstReached(c) ==
    CHOOSE i \in 1..Len(conversion_map) :
        /\ conversion_map[i][2] = c
        /\ DictGet(max_counts, conversion_map[i][1], 0) > 0
        /\ \A j \in 1..(i - 1) :
              ~(conversion_map[j][2] = c
                  /\ DictGet(max_counts, conversion_map[j][1], 0) > 0)

\* C3: the entries are in ascending order of category-x, and two entries
\* with the same category-x are in the order in which the fold over the
\* mapping table first reached their categories.
C3_StableSortOnX ==
    aggregated =>
        \A i, j \in 1..Len(geobuffer_list) :
            i < j =>
                /\ geobuffer_list[i][1] <= geobuffer_list[j][1]
                /\ geobuffer_list[i][1] = geobuffer_list[j][1] =>
                       FirstReached(EntryCategory(geobuffer_list[i]))
                           < FirstReached(EntryCategory(geobuffer_list[j]))

\* The fold reaches (1, 0), then (0, 1), then (0, 0): the sort moves (1, 0)
\* last and leaves (0, 1) before (0, 0).
C3_Witness ==
    /\ aggregated
    /\ Len(geobuffer_list) = 3
    /\ EntryCategory(geobuffer_list[1]) = <<0, 1>>
    /\ EntryCategory(geobuffer_list[2]) = <<0, 0>>
    /\ EntryCategory(geobuffer_list[3]) = <<1, 0>>
    /\ FirstReached(<<1, 0>>) = 1

-----------------------------------------------------------------------------
(* The parser (C9).                                                          *)

parsed == calls = <<"parse_level_file">>

\* The letters of "data=", each in either case.
MarkerLetters ==
    << {Ord("d"), Ord("D")}, {Ord("a"), Ord("A")}, {Ord("t"), Ord("T")},
       {Ord("a"), Ord("A")}, {Ord("=")} >>

\* The trimmed line starts with "data=", in any case.
IsMarkerLine(line) ==
    LET t == Strip(line)
    IN  Len(t) >= 5 /\ \A k \in 1..5 : t[k] \in MarkerLetters[k]

\* The non-empty pieces of the trimmed line between its commas.
Tokens(line) == SelectSeq(Split(Strip(line), Ord(",")), LAMBDA p : p # <<>>)

\* Line i of the file is a row: it is not blank, is no marker, is a data
\* candidate, and has exactly 5 non-empty tokens, all integers.
IsRowLine(ls, i) ==
    /\ Strip(ls[i]) # <<>>
    /\ ~IsMarkerLine(ls[i])
    /\ \/ \E j \in 1..(i - 1) : IsMarkerLine(ls[j])
       \/ Contains(ls[i], Ord(","))
    /\ Len(Tokens(ls[i])) = 5
    /\ \A k \in 1..5 : IsInt(Tokens(ls[i])[k])

\* The rows of the file's row lines, in file order.
RowsOf(ls) ==
    LET idx == SelectSeq([i \in 1..Len(ls) |-> i], LAMBDA i : IsRowLine(ls, i))
    IN  [n \in 1..Len(idx) |-> [k \in 1..5 |-> IntValue(Tokens(ls[idx[n]])[k])]]

\* C9: parse_level_file returns, in file order, exactly one row for each line
\* that is not blank, is no 'data=' marker, is a data candidate, has exactly
\* 5 non-empty comma-separated tokens and whose tokens are all integers;
\* every row has length 5.
C9_ParsedRows ==
    parsed =>
        /\ level_rows = RowsOf(lines)
        /\ \A n \in 1..Len(level_rows) : Len(level_rows[n]) = 5

\* A file of three lines of which the parser keeps two, one of them a line
\* with doubled and trailing separators, and drops one that holds commas.
C9_Witness ==
    /\ parsed
    /\ Len(lines) = 3
    /\ Len(level_rows) = 2
    /\ \E i \in 1..3 :
          lines[i] = Str(<<"1", ",", ",", "2", ",", "1", ",", "2", ",", "2", ",", ",">>)
    /\ \E i \in 1..3 : Contains(lines[i], Ord(",")) /\ ~IsRowLine(lines, i)

-----------------------------------------------------------------------------
(* The run (C4, C5, C6, C10).                                                *)

invoked(f) == f \in Range(calls)

\* The last run got past the selection of the files and the reading of the
\* window size: line 146 is the next statement.
window_read == invoked("parse_level_file")

all_counts_zero == \A i \in 1..Len(max_counts) : max_counts[i][2] = 0

\* C4: a run whose window size is not an integer, or is zero or negative,
\* stops with a configuration error before analysis: the analyzer is not
\* invoked, no max-count table is produced and nothing is written.
C4_BadWindowStopsRun ==
    (message = "Chunk size must be an integer." \/ (window_read /\ chunk_size <= 0))
        => /\ ~invoked("analyze_chunks")
           /\ max_counts = <<>>
           /\ ~invoked("write_output")
           /\ ~written.done

\* C5: a run over a non-empty grid in which no mapped id occurs in any window
\* ends with the nothing-to-do message and writes no output, whatever the
\* preset flag.
C5_NoMatchWritesNothing ==
    (invoked("generate_geobuffer_list") /\ level_rows # <<>> /\ all_counts_zero)
        => /\ message = "No matching item IDs were found in the level data."
           /\ ~invoked("write_output")
           /\ ~written.done

\* What a run that reaches the aggregator leaves in geobuffer_list, with a
\* preset of n entries: the preset, unchanged, then the aggregator's entries
\* in their order (flag set), or the aggregator's entries alone (flag clear);
\* what is written is that list, line by line.
preset_then_computed(n) ==
    (UNCHANGED <<gui_vars, roller_vars>> /\ run_processing
        /\ "generate_geobuffer_list" \in Range(calls')) =>
        LET computed == generate_geobuffer_list(conversion_map, max_counts')
        IN  /\ add_geobuffer0_var =>
                   /\ Len(PRESET_GEOBUFFER0) = n
                   /\ Len(geobuffer_list') = n + Len(computed)
                   /\ SubSeq(geobuffer_list', 1, n) = PRESET_GEOBUFFER0
                   /\ SubSeq(geobuffer_list', n + 1, Len(geobuffer_list')) = computed
            /\ ~add_geobuffer0_var => geobuffer_list' = computed
            /\ written'.done => written'.content = output_lines(geobuffer_list')

\* C6 as stated: with the flag set the final list is the 60 preset entries
\* followed by the aggregator's entries, and with the flag clear it is the
\* aggregator's entries.
C6_Preset60 == [][preset_then_computed(60)]_vars

\* C6 as amended: the preset has 59 entries.
C6_Preset59 == [][preset_then_computed(59)]_vars

\* A run with the flag set wrote the preset followed by computed entries, one
\* of them of a category the preset holds too.
C6_Witness ==
    /\ invoked("prepend_preset")
    /\ written.done
    /\ Len(geobuffer_list) > Len(PRESET_GEOBUFFER0)
    /\ \E i \in 1..Len(PRESET_GEOBUFFER0) :
          EntryCategory(geobuffer_list[i])
              = EntryCategory(geobuffer_list[Len(geobuffer_list)])
    /\ Len(written.content) = Len(geobuffer_list)

\* The last run called the parser, which returned no row.
empty_grid ==
    invoked("parse_level_file") /\ raised = "" /\ level_rows = <<>>

\* C10: a run whose parser yields an empty grid reports that no valid level
\* data was found and invokes neither the analyzer, the aggregator, the
\* preset nor the writer, whatever the window size and the preset flag.
C10_EmptyGridStopsRun ==
    empty_grid =>
        /\ message = "No valid level data found in the file."
        /\ calls = <<"parse_level_file">>
        /\ max_counts = <<>>
        /\ geobuffer_list = <<>>
        /\ ~written.done

\* A run over a file with lines but no valid row, with a window size of 0.
C10_Witness ==
    /\ empty_grid
    /\ lines # <<>>
    /\ chunk_size = 0
    /\ message = "No valid level data found in the file."

-----------------------------------------------------------------------------
(* The roller override (C7, C8).                                             *)

\* The mapping table as loaded from the primary configuration.
LoadedMap == load_mapping(data, 1, <<>>)

RollerIdSet == Range(ROLLER_IDS)

\* The roller configuration is absent or malformed: no file loaded, or the
\* loaded list holds no entry with a name and a list "to".
RollerConfigUnusable ==
    \/ rm_data.t = "none"
    \/ \A i \in 1..Len(rm_data.v) :
          rm_data.v[i].name = <<>> \/ rm_data.v[i].to.t # "list"

\* C7 as stated: with an absent or malformed roller configuration every
\* roller id the primary configuration defines keeps its primary category and
\* every other roller id stays out of the mapping table.
C7_RollersKeepPrimary ==
    RollerConfigUnusable =>
        \A id \in RollerIdSet :
            IF DictHas(LoadedMap, id)
            THEN DictGet(conversion_map, id, <<>>) = DictGet(LoadedMap, id, <<>>)
            ELSE ~DictHas(conversion_map, id)

\* C7 as amended: with an absent or malformed roller configuration every
\* roller id is in the mapping table with the fallback category (24, 4),
\* whether or not the primary configuration defines it, and every other id
\* keeps its primary category.
C7_RollersGetFallback ==
    RollerConfigUnusable =>
        /\ \A id \in RollerIdSet :
              DictHas(conversion_map, id)
                  /\ DictGet(conversion_map, id, <<>>) = FallbackCategory
        /\ \A id \in DictKeys(LoadedMap) \ RollerIdSet :
              DictGet(conversion_map, id, <<>>) = DictGet(LoadedMap, id, <<>>)
        /\ DictKeys(conversion_map) = DictKeys(LoadedMap) \cup RollerIdSet

\* A malformed roller configuration (a list whose entries are all unusable),
\* a primary configuration that defines roller 41 but not roller 42, and a
\* name applied after startup.
C7_Witness ==
    /\ RollerConfigUnusable
    /\ rm_data.t = "list"
    /\ rm_data.v # <<>>
    /\ selection = NameA
    /\ DictGet(LoadedMap, 41, <<>>) = <<5, 0>>
    /\ ~DictHas(LoadedMap, 42)
    /\ DictGet(conversion_map, 41, <<>>) = FallbackCategory
    /\ DictGet(conversion_map, 42, <<>>) = FallbackCategory

\* The category a name resolves to: its entry, else the "Default" entry, else
\* (24, 4).
ResolvedCategory(name) ==
    IF name \in DictKeys(roller_mappings)
    THEN DictGet(roller_mappings, name, <<>>)
    ELSE IF DefaultName \in DictKeys(roller_mappings)
    THEN DictGet(roller_mappings, DefaultName, <<>>)
    ELSE <<24, 4>>

\* C8: after any sequence of apply_roller_mapping calls the mapping table is
\* determined by the load-time table and the last name applied: the eight
\* roller ids map to the category resolved for that name, every other id has
\* its load-time category, and there is no other id; hence applying a name
\* twice gives the table of applying it once.
C8_LastNameDecides ==
    /\ \A id \in RollerIdSet :
          DictHas(conversion_map, id)
              /\ DictGet(conversion_map, id, <<>>) = ResolvedCategory(selection)
    /\ \A id \in DictKeys(LoadedMap) \ RollerIdSet :
          DictGet(conversion_map, id, <<>>) = DictGet(LoadedMap, id, <<>>)
    /\ DictKeys(conversion_map) = DictKeys(LoadedMap) \cup RollerIdSet
    /\ Len(conversion_map) = Cardinality(DictKeys(conversion_map))

\* A name without an entry applied after startup, with a "Default" entry and
\* another entry of a different category in the configuration: the rollers
\* have the "Default" category, not the primary one, and id 2 keeps the
\* category of the last primary group that names it.
C8_Witness ==
    /\ selection = NameB
    /\ DictHas(roller_mappings, DefaultName)
    /\ DictHas(roller_mappings, NameA)
    /\ DictGet(roller_mappings, NameA, <<>>) # DictGet(roller_mappings, DefaultName, <<>>)
    /\ DictGet(LoadedMap, 41, <<>>) = <<3, 1>>
    /\ DictGet(conversion_map, 41, <<>>) = DictGet(roller_mappings, DefaultName, <<>>)
    /\ DictGet(conversion_map, 41, <<>>) # <<3, 1>>
    /\ DictGet(conversion_map, 2, <<>>) = <<3, 1>>
    /\ DictGet(conversion_map, 1, <<>>) = <<5, 0>>

=============================================================================
